---------------------------- MODULE Spec2Model ----------------------------
(***************************************************************************)
(* Model of NovatelNode (src/src/novatel_node.cpp): the callbacks the      *)
(* receiver driver invokes, one per decoded log, the two "most recent"     *)
(* caches (cur_velocity_, cur_ins_cov_), the ephemeris table (cur_ephem_)  *)
(* and the messages each callback publishes.                               *)
(*                                                                         *)
(* Representation of C++ doubles.  A double is a record                    *)
(*     [k, v, d, c]                                                        *)
(*   k = "num"     : the finite value (v / d) * (pi/180)^c                 *)
(*   k = "DBL_MAX" : the constant DBL_MAX of <cfloat>                      *)
(*   k = "inf"     : IEEE +infinity (a positive value divided by 0.0)      *)
(* c counts the factors degrees_to_radians = pi/180 that were multiplied   *)
(* in, so that a unit conversion is visible in the value.                  *)
(* Speeds are in units of 0.01 m/s, standard deviations in units of 0.1 m. *)
(***************************************************************************)
EXTENDS Integers, Sequences, FiniteSets, TLC

\* ------------------------------------------------------------------ bounds
\* number of rows of each per-satellite array of gps_msgs::Ephemeris
NumSat == 2
\* MAX_CHAN of the novatel driver: channels of one range log
MAX_CHAN == 2

\* ----------------------------------------------------------------- doubles
Num(n) == [k |-> "num", v |-> n, d |-> 1, c |-> 0]

Zero == Num(0)

DBL_MAX == [k |-> "DBL_MAX", v |-> 0, d |-> 1, c |-> 0]

Inf == [k |-> "inf", v |-> 0, d |-> 1, c |-> 0]

\* a / b for a > 0 as the FPU computes it: x / 0.0 is +infinity, no trap
Quot(a, b) == IF b = 0 THEN Inf ELSE [k |-> "num", v |-> a, d |-> b, c |-> 0]

\* the standard deviation taken for the variance, the square left out
Unsquared(x) == x

\* x * x
Square(x) == IF x.k = "num" THEN [x EXCEPT !.v = @ * @, !.d = @ * @, !.c = @ + @]
             ELSE Inf

\* static double degrees_to_radians = M_PI / 180.0;  x * degrees_to_radians
TimesDegreesToRadians(x) == IF x.k = "num" /\ x.v # 0 THEN [x EXCEPT !.c = @ + 1] ELSE x

\* the attitude covariance copied like the other two blocks, in degrees^2
NoUnitFactor(x) == x

\* degrees_square_to_radians_square = degrees_to_radians*degrees_to_radians
TimesDegreesSquareToRadiansSquare(x) == TimesDegreesToRadians(TimesDegreesToRadians(x))

\* static double sigma_v = 0.05; in units of 0.01 m/s
sigma_v == 5

\* ------------------------------------------------- receiver enumerations
\* novatel::PositionType, the position or velocity type of a solution
PositionType ==
    [NONE |-> 0, FIXEDPOS |-> 1, FIXEDHEIGHT |-> 2, FLOATCONV |-> 4,
     WIDELANE |-> 5, NARROWLANE |-> 6, DOPPLER_VELOCITY |-> 8, SINGLE |-> 16,
     PSRDIFF |-> 17, WAAS |-> 18, PROPOGATED |-> 19, OMNISTAR |-> 20,
     L1_FLOAT |-> 32, IONOFREE_FLOAT |-> 33, NARROW_FLOAT |-> 34,
     L1_INT |-> 48, WIDE_INT |-> 49, NARROW_INT |-> 50, RTK_DIRECT_INS |-> 51,
     INS |-> 52, INS_PSRSP |-> 53, INS_PSRDIFF |-> 54, INS_RTKFLOAT |-> 55,
     INS_RTKFIXED |-> 56, OMNISTAR_HP |-> 64, OMNISTAR_XP |-> 65, CDGPS |-> 66]

\* the codes the enumeration defines
RecognizedPositionTypes == {PositionType[n] : n \in DOMAIN PositionType}

\* novatel::InsStatus values used by InsPvaHandler
InsStatus == [INS_INACTIVE |-> 0, INS_ALIGNING |-> 1, INS_SOLUTION_GOOD |-> 3]

\* sensor_msgs::NavSatStatus
NavSatStatus ==
    [STATUS_NO_FIX |-> -1, STATUS_FIX |-> 0, STATUS_SBAS_FIX |-> 1,
     STATUS_GBAS_FIX |-> 2, SERVICE_GPS |-> 1, SERVICE_GLONASS |-> 2]

\* --------------------------------------------------------------- messages
CovIndex == 0 .. 35

\* boost::array<double, 36> of a freshly constructed message: all zero
ZeroCovariance == [i \in CovIndex |-> Zero]

\* geometry_msgs::Quaternion as the tf helper was called: the three Euler
\* angles handed to createQuaternionMsgFromRollPitchYaw; set = FALSE is the
\* default-constructed quaternion (0, 0, 0, 0)
DefaultOrientation == [set |-> FALSE, roll |-> Zero, pitch |-> Zero, yaw |-> Zero]

\* tf::createQuaternionMsgFromRollPitchYaw(roll, pitch, yaw), angles in radians
createQuaternionMsgFromRollPitchYaw(roll, pitch, yaw) ==
    [set |-> TRUE, roll |-> roll, pitch |-> pitch, yaw |-> yaw]

\* tf::createQuaternionMsgFromYaw(yaw)
createQuaternionMsgFromYaw(yaw) == createQuaternionMsgFromRollPitchYaw(Zero, Zero, yaw)

\* a linear velocity component: mag * fn(arg), arg the double handed to
\* cos / sin as radians; fn = "one" is the plain value mag
Lin(mag, fn, arg) == [mag |-> mag, fn |-> fn, arg |-> arg]

Plain(mag) == Lin(mag, "one", Zero)

\* a position coordinate: src = "value" is the plain value a; "easting" and
\* "northing" are the outputs of Novatel::ConvertLLaUTM(a = latitude, b = longitude)
Coord(src, a, b) == [src |-> src, a |-> a, b |-> b]

\* nav_msgs::Odometry cur_odom_ right after construction.  written records
\* which members the handler assigned afterwards: fields by name, covariance
\* entries by index.
DefaultOdometry ==
    [topic |-> "odom", stamp |-> 0, frame_id |-> "",
     position |-> <<Coord("value", 0, 0), Coord("value", 0, 0), Coord("value", 0, 0)>>,
     orientation |-> DefaultOrientation,
     linear |-> <<Plain(0), Plain(0), Plain(0)>>,
     pose_covariance |-> ZeroCovariance,
     twist_covariance |-> ZeroCovariance,
     written |-> [fields |-> {}, pose |-> {}, twist |-> {}]]

\* sensor_msgs::NavSatFix sat_fix right after construction
DefaultNavSatFix ==
    [topic |-> "nav_sat_fix", stamp |-> 0, frame_id |-> "",
     status |-> 0, service |-> 0,
     latitude |-> 0, longitude |-> 0, altitude |-> 0,
     position_covariance_type |-> "COVARIANCE_TYPE_UNKNOWN"]

\* ----------------------------------------------------------------- inputs
\* GPS time of a log: week and millisecond of week
Epochs ==
    {[gps_week |-> 100, gps_millisecs |-> 5000],
     [gps_week |-> 100, gps_millisecs |-> 5001],
     [gps_week |-> 101, gps_millisecs |-> 5000]}

\* values ros::Time::now() returns
Stamps == {1, 2}

\* novatel::Velocity (BESTVEL)
VelocityInputs ==
    {[header |-> e, position_type |-> ps[1], horizontal_speed |-> ps[2],
      track_over_ground |-> 90, vertical_speed |-> 3] :
        e \in Epochs,
        ps \in {<<PositionType.NONE, 5>>, <<PositionType.SINGLE, 0>>,
                <<PositionType.SINGLE, 5>>}}

\* novatel::UtmPosition (BESTUTM) of the given epochs, position types and
\* signal masks
UtmPositions(epochs, ptypes, masks) ==
    {[header |-> e, position_type |-> p, signals_used_mask |-> m,
      easting |-> 500, northing |-> 600, height |-> 70,
      easting_standard_deviation |-> 1, northing_standard_deviation |-> 2,
      height_standard_deviation |-> 3] :
        e \in epochs, p \in ptypes, m \in masks}

UtmPositionInputs ==
    UtmPositions(Epochs, {PositionType.NONE, PositionType.SINGLE}, {3})

\* codes the enumeration does not define
UnrecognizedPositionTypes == {3, 67}

UtmPositionInputsAnyType ==
    UtmPositions({[gps_week |-> 100, gps_millisecs |-> 5000]},
                 RecognizedPositionTypes \cup UnrecognizedPositionTypes, {3, 51})

\* novatel::InsCovarianceShort (INSCOVS): three row-major 3x3 blocks
InsCovInputs ==
    {[gps_week |-> e.gps_week, gps_millisecs |-> e.gps_millisecs,
      position_covariance |-> [i \in 0 .. 8 |-> 10 + i],
      attitude_covariance |-> [i \in 0 .. 8 |-> 20 + i],
      velocity_covariance |-> [i \in 0 .. 8 |-> 30 + i]] : e \in Epochs}

\* novatel::InsPositionVelocityAttitudeShort (INSPVAS)
InsPvaInputs ==
    {[gps_week |-> e.gps_week, gps_millisecs |-> e.gps_millisecs,
      latitude |-> lat, longitude |-> 10, height |-> 70,
      north_velocity |-> 1, east_velocity |-> 2, up_velocity |-> 3,
      roll |-> 4, pitch |-> 5, azimuth |-> 90,
      status |-> IF lat = 40 THEN InsStatus.INS_SOLUTION_GOOD
                 ELSE InsStatus.INS_ALIGNING] :
        e \in Epochs, lat \in {40, 91}}

\* ------------------------------------------------------------------ state
VARIABLES
    cur_velocity_,  \* Velocity cur_velocity_
    cur_ins_cov_,   \* InsCovarianceShort cur_ins_cov_
    cur_ephem_,     \* gps_msgs::Ephemeris cur_ephem_
    published,      \* the messages the most recent callback published, in order
    call,           \* the most recent callback and its argument; again: the
                    \* callback before it was the same one with the same
                    \* argument; replaced: the record handed in before this one
    arrived,        \* the most recent Velocity / InsCovarianceShort handed in, if any
    fault,          \* "none", or what an out-of-bounds store or a read past
                    \* the end did to the process
    gps_,           \* Novatel gps_: the commands run() has sent to the receiver
    pc              \* where main is: "main" before run(), "spin" in ros::spin(),
                    \* "aborted"

vars == <<cur_velocity_, cur_ins_cov_, cur_ephem_, published, call, arrived, fault,
          gps_, pc>>


\* ------------------------------------------------- BestUtmHandler, pieces
\* sat_fix.status.status of a position fix, the if / else-if chain
FixStatus(position_type) ==
    IF position_type = PositionType.NONE
    THEN NavSatStatus.STATUS_NO_FIX
    ELSE IF \/ position_type = PositionType.WAAS
            \/ position_type = PositionType.OMNISTAR
            \/ position_type = PositionType.OMNISTAR_HP
            \/ position_type = PositionType.OMNISTAR_XP
            \/ position_type = PositionType.CDGPS
    THEN NavSatStatus.STATUS_SBAS_FIX
    ELSE IF \/ position_type = PositionType.PSRDIFF
            \/ position_type = PositionType.NARROW_FLOAT
            \/ position_type = PositionType.WIDE_INT
            \/ position_type = PositionType.WIDE_INT
            \/ position_type = PositionType.NARROW_INT
            \/ position_type = PositionType.RTK_DIRECT_INS
            \/ position_type = PositionType.INS_PSRDIFF
            \/ position_type = PositionType.INS_RTKFLOAT
            \/ position_type = PositionType.INS_RTKFIXED
    THEN NavSatStatus.STATUS_GBAS_FIX
    ELSE NavSatStatus.STATUS_FIX

\* pos.signals_used_mask & 0x30
MaskAnd0x30(mask) == ((mask \div 16) % 4) * 16

FixService(mask) ==
    IF MaskAnd0x30(mask) # 0 THEN NavSatStatus.SERVICE_GLONASS
    ELSE NavSatStatus.SERVICE_GPS

\* the velocity test with the comparison of gps_millisecs left out
VelocityMatchesWeekOnly(vel, pos) == vel.header.gps_week = pos.header.gps_week

\* the test "see if there is a recent velocity message"
VelocityMatches(vel, pos) ==
    /\ vel.header.gps_week = pos.header.gps_week
    /\ vel.header.gps_millisecs = pos.header.gps_millisecs

\* sat_fix as BestUtmHandler publishes it
UtmNavSatFix(pos, stamp) ==
    [DefaultNavSatFix EXCEPT
        !.stamp = stamp,
        !.frame_id = "/odom",
        !.status = FixStatus(pos.position_type),
        !.service = FixService(pos.signals_used_mask),
        !.position_covariance_type = "COVARIANCE_TYPE_DIAGONAL_KNOWN"]

\* pose.covariance[35] inside the matched branch
HeadingVariance(vel) ==
    IF vel.position_type > PositionType.NONE
    THEN Square(Quot(sigma_v, vel.horizontal_speed))
    ELSE DBL_MAX

\* twist.covariance[0] and [7] inside the matched branch
SpeedVariance(vel) ==
    IF vel.position_type > PositionType.NONE THEN Num(sigma_v * sigma_v)
    ELSE DBL_MAX

\* cur_odom_ as BestUtmHandler publishes it, vel the cached Velocity
UtmOdometry(pos, vel, stamp) ==
    LET m == VelocityMatches(vel, pos)
        s0 == [DefaultOdometry EXCEPT
                 !.stamp = stamp,
                 !.frame_id = "/odom",
                 !.position = <<Coord("value", pos.easting, 0),
                                Coord("value", pos.northing, 0),
                                Coord("value", pos.height, 0)>>,
                 !.pose_covariance[0] = Square(Num(pos.easting_standard_deviation)),
                 !.pose_covariance[7] = Square(Num(pos.northing_standard_deviation)),
                 !.pose_covariance[14] = Square(Num(pos.height_standard_deviation)),
                 !.pose_covariance[21] = DBL_MAX,
                 !.pose_covariance[28] = DBL_MAX,
                 !.written = [fields |-> {"position"},
                              pose |-> {0, 7, 14, 21, 28}, twist |-> {}]]
    IN  IF m
        THEN [s0 EXCEPT
                 !.linear = <<Lin(vel.horizontal_speed, "cos", Num(vel.track_over_ground)),
                              Lin(vel.horizontal_speed, "sin", Num(vel.track_over_ground)),
                              Plain(vel.vertical_speed)>>,
                 !.orientation = createQuaternionMsgFromYaw(
                                   TimesDegreesToRadians(Num(vel.track_over_ground))),
                 !.pose_covariance[35] = HeadingVariance(vel),
                 !.twist_covariance[0] = SpeedVariance(vel),
                 !.twist_covariance[7] = SpeedVariance(vel),
                 !.written = [fields |-> {"position", "linear", "orientation"},
                              pose |-> {0, 7, 14, 21, 28, 35}, twist |-> {0, 7}]]
        ELSE s0

\* ----------------------------------------------------------------- actions
\* BestUtmHandler as it would be if it invalidated the cached Velocity once
\* it has fused it
BestUtmHandlerExpiring(pos, stamp) ==
    /\ fault = "none"
    /\ published' = <<UtmNavSatFix(pos, stamp), UtmOdometry(pos, cur_velocity_, stamp)>>
    /\ call' = [op |-> "BestUtm", rec |-> pos,
                again |-> call.op = "BestUtm" /\ call.rec = pos]
    /\ cur_velocity_' = IF VelocityMatches(cur_velocity_, pos)
                        THEN [cur_velocity_ EXCEPT !.header.gps_week = 0]
                        ELSE cur_velocity_
    /\ UNCHANGED <<cur_ins_cov_, cur_ephem_, arrived, fault, gps_, pc>>

\* BestUtmHandler as it would be if the odometry were published from inside
\* the matched branch
BestUtmHandlerOdomOnMatch(pos, stamp) ==
    /\ fault = "none"
    /\ published' = IF VelocityMatches(cur_velocity_, pos)
                    THEN <<UtmNavSatFix(pos, stamp),
                           UtmOdometry(pos, cur_velocity_, stamp)>>
                    ELSE <<UtmNavSatFix(pos, stamp)>>
    /\ call' = [op |-> "BestUtm", rec |-> pos,
                again |-> call.op = "BestUtm" /\ call.rec = pos]
    /\ UNCHANGED <<cur_velocity_, cur_ins_cov_, cur_ephem_, arrived, fault, gps_, pc>>

\* void BestUtmHandler(UtmPosition &pos, double &timestamp)
BestUtmHandler(pos, stamp) ==
    /\ fault = "none"
    /\ published' = <<UtmNavSatFix(pos, stamp), UtmOdometry(pos, cur_velocity_, stamp)>>
    /\ call' = [op |-> "BestUtm", rec |-> pos,
                again |-> call.op = "BestUtm" /\ call.rec = pos]
    /\ UNCHANGED <<cur_velocity_, cur_ins_cov_, cur_ephem_, arrived, fault, gps_, pc>>

\* the assignment as it would be if a Velocity older than the cached one
\* were dropped
NewerVelocity(old, vel) ==
    IF \/ vel.header.gps_week > old.header.gps_week
       \/ /\ vel.header.gps_week = old.header.gps_week
          /\ vel.header.gps_millisecs >= old.header.gps_millisecs
    THEN vel ELSE old

\* cur_velocity_ = vel;
AssignVelocity(old, vel) == vel

\* void BestVelocityHandler(Velocity &vel, double &timestamp)
BestVelocityHandler(vel) ==
    /\ fault = "none"
    /\ cur_velocity_' = AssignVelocity(cur_velocity_, vel)
    /\ published' = <<>>
    /\ call' = [op |-> "BestVelocity", rec |-> vel, replaced |-> arrived.velocity]
    /\ arrived' = [arrived EXCEPT !.velocity = <<vel>>]
    /\ UNCHANGED <<cur_ins_cov_, cur_ephem_, fault, gps_, pc>>

\* ------------------------------------------------------- INS handlers
\* the covariance test with the comparison of gps_week left out
InsCovMatchesMillisecsOnly(cov, ins_pva) == cov.gps_millisecs = ins_pva.gps_millisecs

\* the test "see if there is a matching ins covariance message"
InsCovMatches(cov, ins_pva) ==
    /\ cov.gps_week = ins_pva.gps_week
    /\ cov.gps_millisecs = ins_pva.gps_millisecs

\* the block written with the row stride 3 of its source instead of 6
RowStride3Block == <<0, 1, 2, 3, 4, 5, 6, 7, 8>>

\* index k of a 3x3 source block goes to these entries of a 36-element array
UpperLeftBlock == <<0, 1, 2, 6, 7, 8, 12, 13, 14>>

LowerRightBlock == <<21, 22, 23, 27, 28, 29, 33, 34, 35>>

Range(seq) == {seq[k] : k \in DOMAIN seq}

\* the source index written to entry i of block
BlockSource(block, i) == (CHOOSE k \in DOMAIN block : block[k] = i) - 1

\* sat_fix as InsPvaHandler publishes it
InsNavSatFix(ins_pva, stamp) ==
    [DefaultNavSatFix EXCEPT
        !.stamp = stamp,
        !.frame_id = "/odom",
        !.status = IF ins_pva.status = InsStatus.INS_SOLUTION_GOOD
                   THEN NavSatStatus.STATUS_FIX
                   ELSE NavSatStatus.STATUS_NO_FIX,
        !.service = NavSatStatus.SERVICE_GPS,
        !.latitude = ins_pva.latitude,
        !.longitude = ins_pva.longitude,
        !.altitude = ins_pva.height,
        !.position_covariance_type = "COVARIANCE_TYPE_DIAGONAL_KNOWN"]

\* cur_odom_ as InsPvaHandler publishes it, cov the cached InsCovarianceShort
InsOdometry(ins_pva, cov, stamp) ==
    LET s0 == [DefaultOdometry EXCEPT
                 !.stamp = stamp,
                 !.frame_id = "/odom",
                 !.position = <<Coord("easting", ins_pva.latitude, ins_pva.longitude),
                                Coord("northing", ins_pva.latitude, ins_pva.longitude),
                                Coord("value", ins_pva.height, 0)>>,
                 !.orientation = createQuaternionMsgFromRollPitchYaw(
                                   Num(ins_pva.roll), Num(ins_pva.pitch),
                                   Num(ins_pva.azimuth)),
                 !.linear = <<Plain(ins_pva.east_velocity),
                              Plain(ins_pva.north_velocity),
                              Plain(ins_pva.up_velocity)>>,
                 !.written = [fields |-> {"position", "orientation", "linear"},
                              pose |-> {}, twist |-> {}]]
    IN  IF InsCovMatches(cov, ins_pva)
        THEN [s0 EXCEPT
                 !.pose_covariance =
                     [i \in CovIndex |->
                        IF i \in Range(UpperLeftBlock)
                        THEN Num(cov.position_covariance[BlockSource(UpperLeftBlock, i)])
                        ELSE IF i \in Range(LowerRightBlock)
                        THEN TimesDegreesSquareToRadiansSquare(
                               Num(cov.attitude_covariance[BlockSource(LowerRightBlock, i)]))
                        ELSE @[i]],
                 !.twist_covariance =
                     [i \in CovIndex |->
                        IF i \in Range(UpperLeftBlock)
                        THEN Num(cov.velocity_covariance[BlockSource(UpperLeftBlock, i)])
                        ELSE @[i]],
                 !.written = [fields |-> {"position", "orientation", "linear"},
                              pose |-> Range(UpperLeftBlock) \cup Range(LowerRightBlock),
                              twist |-> Range(UpperLeftBlock)]]
        ELSE s0

\* void InsPvaHandler(InsPositionVelocityAttitudeShort &ins_pva, double &timestamp)
InsPvaHandler(ins_pva, stamp) ==
    /\ fault = "none"
    /\ published' = <<InsNavSatFix(ins_pva, stamp), InsOdometry(ins_pva, cur_ins_cov_, stamp)>>
    /\ call' = [op |-> "InsPva", rec |-> ins_pva,
                again |-> call.op = "InsPva" /\ call.rec = ins_pva]
    /\ UNCHANGED <<cur_velocity_, cur_ins_cov_, cur_ephem_, arrived, fault, gps_, pc>>

\* cur_ins_cov_ = cov;
AssignInsCov(old, cov) == cov

\* void InsCovHandler(InsCovarianceShort &cov, double &timestamp)
InsCovHandler(cov) ==
    /\ fault = "none"
    /\ cur_ins_cov_' = AssignInsCov(cur_ins_cov_, cov)
    /\ published' = <<>>
    /\ call' = [op |-> "InsCov", rec |-> cov, replaced |-> arrived.ins_cov]
    /\ arrived' = [arrived EXCEPT !.ins_cov = <<cov>>]
    /\ UNCHANGED <<cur_velocity_, cur_ephem_, fault, gps_, pc>>

\* void RawImuHandler(RawImuShort &imu, double &timestamp): empty body
RawImuHandler ==
    /\ fault = "none"
    /\ published' = <<>>
    /\ call' = [op |-> "RawImu"]
    /\ UNCHANGED <<cur_velocity_, cur_ins_cov_, cur_ephem_, arrived, fault, gps_, pc>>

\* void HardwareStatusHandler(ReceiverHardwareStatus &status, double &timestamp):
\* empty body
HardwareStatusHandler ==
    /\ fault = "none"
    /\ published' = <<>>
    /\ call' = [op |-> "HardwareStatus"]
    /\ UNCHANGED <<cur_velocity_, cur_ins_cov_, cur_ephem_, arrived, fault, gps_, pc>>

\* --------------------------------------------------------- EphemerisHandler
\* the per-satellite arrays of gps_msgs::Ephemeris, in the order of the stores
EphemFields ==
    <<"health", "semimajor_axis", "mean_anomaly", "eccentricity", "perigee_arg",
      "cos_latitude", "sin_latitude", "cos_orbit_radius", "sin_orbit_radius",
      "cos_inclination", "sin_inclination", "inclination_angle", "right_ascension",
      "mean_motion_diff", "inclination_rate", "ascension_rate", "time_of_week",
      "reference_time", "clock_correction", "group_delay", "clock_aging_1",
      "clock_aging_2", "clock_aging_3">>

\* the member of novatel::GpsEphemeris stored into each of them
EphemSource ==
    <<"health", "semi_major_axis", "anomoly_reference_time", "eccentricity", "omega",
      "latitude_cosine", "latitude_sine", "orbit_radius_cosine", "orbit_radius_sine",
      "inclination_cosine", "inclination_sine", "inclination_angle", "right_ascension",
      "mean_motion_difference", "inclination_angle_rate", "right_ascension_rate",
      "time_of_week", "time_of_ephemeris", "sv_clock_correction",
      "group_delay_difference", "clock_aligning_param_0", "clock_aligning_param_1",
      "clock_aligning_param_2">>

Rows == 0 .. NumSat - 1

\* a GPSEPHEM log for satellite prn; variant tells two logs of a satellite apart
GpsEphemeris(prn, variant) ==
    [name \in Range(EphemSource) \cup {"prn"} |->
        IF name = "prn" THEN prn
        ELSE 100 * variant + (CHOOSE k \in DOMAIN EphemSource : EphemSource[k] = name)]

\* satellite ids of the table
ValidPrns == 1 .. NumSat

\* ids outside of it: 0, the first id past the table, and one that wraps
\* around in uint8_t n
InvalidPrns == {0, NumSat + 1, 257}

\* the row index without the - 1
RowIndexOffByOne(prn) == prn % 256

\* uint8_t n = ephem.prn-1;
RowIndex(prn) == (prn - 1) % 256

\* The stores array[n] = value of lines 292-314 on the arrays of cur_ephem_.
\* For n inside the arrays each store changes row n of its own array.  For n
\* outside, boost::array::operator[] is out of bounds and the behaviour is
\* undefined; layout names what the build makes of it:
\*   "contiguous" the arrays lie one after the other in the message, a store
\*                past the end of one lands in a following one, or past the
\*                last array;
\*   "elsewhere"  no store lands in any of the arrays.
\* rows[g][r] is element r of the array EphemFields[g]; the store of array k
\* at index n reaches element (k - 1) * NumSat + n of the arrays laid end to end.
StoreRows(rows, ephem, n, layout) ==
    [g \in DOMAIN EphemFields |->
        [r \in Rows |->
            LET back == n - r
                k == g - (back \div NumSat)
            IN  IF /\ back % NumSat = 0
                   /\ k \in DOMAIN EphemFields
                   /\ (n \in Rows \/ layout = "contiguous")
                THEN ephem[EphemSource[k]]
                ELSE rows[g][r]]]

\* EphemerisHandler as it would be if it published the table before the stores
EphemerisHandlerPublishFirst(ephem, timestamp, stamp) ==
    /\ fault = "none"
    /\ RowIndex(ephem.prn) \in Rows
    /\ call' = [op |-> "Ephemeris", rec |-> ephem]
    /\ cur_ephem_' = [cur_ephem_ EXCEPT
                         !.stamp = stamp, !.gps_time = timestamp,
                         !.rows = StoreRows(@, ephem, RowIndex(ephem.prn), "contiguous")]
    /\ published' = <<[topic |-> "ephemeris",
                       msg |-> [cur_ephem_ EXCEPT !.stamp = stamp,
                                                  !.gps_time = timestamp]]>>
    /\ UNCHANGED <<cur_velocity_, cur_ins_cov_, arrived, fault, gps_, pc>>

\* void EphemerisHandler(GpsEphemeris &ephem, double &timestamp)
EphemerisHandler(ephem, timestamp, stamp) ==
    /\ fault = "none"
    /\ call' = [op |-> "Ephemeris", rec |-> ephem]
    /\ LET n == RowIndex(ephem.prn)
           head == [cur_ephem_ EXCEPT !.stamp = stamp, !.gps_time = timestamp]
       IN  \/ /\ n \in Rows
              /\ cur_ephem_' = [head EXCEPT !.rows = StoreRows(@, ephem, n, "contiguous")]
              /\ published' = <<[topic |-> "ephemeris", msg |-> cur_ephem_']>>
              /\ fault' = "none"
           \/ /\ n \notin Rows
              /\ \E layout \in {"contiguous", "elsewhere"} :
                    cur_ephem_' = [head EXCEPT !.rows = StoreRows(@, ephem, n, layout)]
              /\ published' = <<[topic |-> "ephemeris", msg |-> cur_ephem_']>>
              /\ fault' = "none"
           \/ \* BOOST_ASSERT(i < N) of operator[] aborts the process
              /\ n \notin Rows
              /\ cur_ephem_' = head
              /\ published' = <<>>
              /\ fault' = "abort"
    /\ UNCHANGED <<cur_velocity_, cur_ins_cov_, arrived, gps_, pc>>

\* ------------------------------------------------------------- RangeHandler
\* one channel of a RANGE log
RangeData(b) ==
    [satellite_prn |-> b, pseudorange |-> 20 + b,
     pseudorange_standard_deviation |-> 30 + b, doppler |-> 40 + b,
     carrier_to_noise |-> 50 + b, accumulated_doppler |-> 60 + b,
     accumulated_doppler_std_deviation |-> 70 + b]

Channels == 0 .. MAX_CHAN - 1

\* novatel::RangeMeasurements: the channel array and the count the log reports
RangeInputs ==
    {[number_of_observations |-> c,
      range_data |-> [n \in Channels |-> RangeData(b + n)]] :
        c \in {MAX_CHAN - 1, MAX_CHAN}, b \in {1, 5}}

\* cur_range_ with the accumulated doppler and its deviation copied as they are
DualBandRangeSameSign(range, timestamp, stamp) ==
    [topic |-> "range", stamp |-> stamp, gps_time |-> timestamp,
     L1 |-> [prn |-> [n \in Channels |-> range.range_data[n].satellite_prn],
             psr |-> [n \in Channels |-> range.range_data[n].pseudorange],
             psr_std |-> [n \in Channels |->
                            range.range_data[n].pseudorange_standard_deviation],
             doppler |-> [n \in Channels |-> range.range_data[n].doppler],
             noise |-> [n \in Channels |-> range.range_data[n].carrier_to_noise],
             phase |-> [n \in Channels |-> range.range_data[n].accumulated_doppler],
             phase_std |-> [n \in Channels |->
                            range.range_data[n].accumulated_doppler_std_deviation]]]

\* cur_range_ as RangeHandler publishes it
DualBandRange(range, timestamp, stamp) ==
    [topic |-> "range", stamp |-> stamp, gps_time |-> timestamp,
     L1 |-> [prn |-> [n \in Channels |-> range.range_data[n].satellite_prn],
             psr |-> [n \in Channels |-> range.range_data[n].pseudorange],
             psr_std |-> [n \in Channels |->
                            range.range_data[n].pseudorange_standard_deviation],
             doppler |-> [n \in Channels |-> range.range_data[n].doppler],
             noise |-> [n \in Channels |-> range.range_data[n].carrier_to_noise],
             phase |-> [n \in Channels |-> -range.range_data[n].accumulated_doppler],
             phase_std |-> [n \in Channels |->
                            -range.range_data[n].accumulated_doppler_std_deviation]]]

\* void RangeHandler(RangeMeasurements &range, double &timestamp)
RangeHandler(range, timestamp, stamp) ==
    /\ fault = "none"
    /\ published' = <<DualBandRange(range, timestamp, stamp)>>
    /\ call' = [op |-> "Range", rec |-> range]
    /\ UNCHANGED <<cur_velocity_, cur_ins_cov_, cur_ephem_, arrived, fault, gps_, pc>>

\* -------------------------------------------------------------------- run()
\* A std::string that is split at commas is modelled as the sequence of the
\* pieces between its commas; the empty string is the one empty piece.
EmptyString == <<"">>

\* boost::tokenizer with char_separator<char>(","): the non-empty pieces
Tokens(str) == SelectSeq(str, LAMBDA piece : piece # "")

\* atoi on the tokens a directive is made of here
Atoi(token) == IF token = "9600" THEN 9600 ELSE 0

\* the pieces a configure_port parameter is made of, by position
PortPieces == <<"COM2", "9600", "RTCA", "NONE", "EXTRA">>

\* configure_port parameters: one to five pieces, each present or empty, so
\* "", ",", "COM2,9600", "COM2,9600,RTCA,NONE", "COM2,,RTCA,NONE,EXTRA", ...
ConfigurePortInputs ==
    UNION {{[i \in 1 .. len |-> IF i \in keep THEN PortPieces[i] ELSE ""] :
               keep \in SUBSET (1 .. len)} : len \in 1 .. Len(PortPieces)}

\* std::fixed with precision(2): a period in thousandths of a second is
\* written in hundredths, rounded to the nearest
Fixed2(period) == (period + 5) \div 10

\* one "<LOG> ONTIME <period>" of a log request string, period in hundredths;
\* terminated: a ";" follows it
LogRequest(log, period, terminated) ==
    [log |-> log, trigger |-> "ONTIME", period |-> period, terminated |-> terminated]

ConfigureLogs(requests) == [cmd |-> "ConfigureLogs", requests |-> requests]

\* getParameters(): the parameter server may hold any value of the periods and
\* of configure_port; the other parameters have their defaults. Periods are
\* in thousandths of a second.
Parameters ==
    [port_ : {"/dev/ttyUSB0"},
     baudrate_ : {9600},
     log_commands_ : {<<LogRequest("BESTUTMB", 100, FALSE)>>},
     configure_port_ : ConfigurePortInputs,
     gps_default_logs_period_ : {0, 4, 50},
     span_default_logs_period_ : {0, 100},
     ephem_default_logs_period_ : {0, 60000},
     range_default_logs_period_ : {0, 50}]

\* the log requests of run(), in the order they are sent
DefaultLogs(params) ==
    (IF params.gps_default_logs_period_ > 0
     THEN <<ConfigureLogs(
              <<LogRequest("BESTUTMB", Fixed2(params.gps_default_logs_period_), TRUE),
                LogRequest("BESTVELB", Fixed2(params.gps_default_logs_period_), TRUE)>>)>>
     ELSE <<>>)
    \o (IF params.span_default_logs_period_ > 0
        THEN <<ConfigureLogs(
                 <<LogRequest("INSPVAB", Fixed2(params.gps_default_logs_period_), TRUE),
                   LogRequest("INSCOVB", Fixed2(params.gps_default_logs_period_), FALSE)>>)>>
        ELSE <<>>)
    \o (IF params.ephem_default_logs_period_ > 0
        THEN <<ConfigureLogs(
                 <<LogRequest("GPSEPHEMB", Fixed2(params.ephem_default_logs_period_), TRUE)>>)>>
        ELSE <<>>)
    \o (IF params.range_default_logs_period_ > 0
        THEN <<ConfigureLogs(
                 <<LogRequest("RANGEB", Fixed2(params.range_default_logs_period_), TRUE)>>)>>
        ELSE <<>>)
    \o <<ConfigureLogs(params.log_commands_)>>

\* the commands of the block "configure serial port (for rtk generally)"
ConfigurePort(configure_port_) ==
    LET tokens == Tokens(configure_port_)
    IN  IF configure_port_ = EmptyString \/ Len(tokens) # 4
        THEN <<>>
        ELSE <<[cmd |-> "ConfigureInterfaceMode", com_port |-> tokens[1],
                rx_mode |-> tokens[3], tx_mode |-> tokens[4]],
               [cmd |-> "ConfigureBaudRate", com_port |-> tokens[1],
                baudrate |-> Atoi(tokens[2])]>>

\* void run(), up to its call of ros::spin(). call records the parameters,
\* error: ROS_ERROR_STREAM("Incorrect number of tokens ...") was issued,
\* past_the_end: *(current_token) was evaluated on tokens.begin() of a
\* tokenizer that holds no token. That read is undefined: the iterator
\* asserts that it is valid and aborts, or the assertion is compiled out and
\* the read yields the iterator's empty token.
run(params) ==
    /\ pc = "main"
    /\ fault = "none"
    /\ LET tokens == Tokens(params.configure_port_)
           sent == <<[cmd |-> "Connect", port |-> params.port_,
                      baudrate |-> params.baudrate_]>> \o DefaultLogs(params)
           past_the_end == params.configure_port_ # EmptyString /\ tokens = <<>>
       IN  \/ /\ gps_' = sent \o ConfigurePort(params.configure_port_)
              /\ call' = [op |-> "run", params |-> params,
                          error |-> /\ params.configure_port_ # EmptyString
                                    /\ Len(tokens) # 4,
                          past_the_end |-> past_the_end]
              /\ pc' = "spin"
              /\ fault' = "none"
           \/ /\ past_the_end
              /\ gps_' = sent
              /\ call' = [op |-> "run", params |-> params, error |-> FALSE,
                          past_the_end |-> TRUE]
              /\ pc' = "aborted"
              /\ fault' = "abort"
    /\ published' = <<>>
    /\ UNCHANGED <<cur_velocity_, cur_ins_cov_, cur_ephem_, arrived>>

\* ------------------------------------------------------------ specification
\* gps_msgs::Ephemeris cur_ephem_ as its constructor leaves it
DefaultEphemeris ==
    [stamp |-> 0, gps_time |-> 0,
     rows |-> [g \in DOMAIN EphemFields |-> [r \in Rows |-> 0]]]

\* reception times the driver hands to a callback
Timestamps == {7}

\* what the never-assigned structs cur_velocity_ and cur_ins_cov_ may hold:
\* any bytes, among them those of a record the receiver can send
UninitializedVelocity ==
    {vel \in VelocityInputs :
        vel.position_type = PositionType.SINGLE /\ vel.horizontal_speed = 5}

UninitializedInsCov == {cov \in InsCovInputs : cov.gps_week = 100}

\* NovatelNode(): the constructor registers the callbacks and initialises none
\* of cur_velocity_ and cur_ins_cov_, plain structs whose bytes are whatever
\* the storage held; cur_ephem_ is a ROS message, zeroed by its constructor.
Init ==
    /\ cur_velocity_ \in UninitializedVelocity
    /\ cur_ins_cov_ \in UninitializedInsCov
    /\ cur_ephem_ = DefaultEphemeris
    /\ published = <<>>
    /\ call = [op |-> "none"]
    /\ arrived = [velocity |-> <<>>, ins_cov |-> <<>>]
    /\ fault = "none"
    /\ gps_ = <<>>
    /\ pc = "main"

OnBestUtm == \E pos \in UtmPositionInputs, stamp \in Stamps : BestUtmHandler(pos, stamp)

OnBestUtmAnyType ==
    \E pos \in UtmPositionInputsAnyType, stamp \in Stamps : BestUtmHandler(pos, stamp)

OnBestVelocity == \E vel \in VelocityInputs : BestVelocityHandler(vel)

OnInsPva == \E ins_pva \in InsPvaInputs, stamp \in Stamps : InsPvaHandler(ins_pva, stamp)

OnInsCov == \E cov \in InsCovInputs : InsCovHandler(cov)

OnRawImu == RawImuHandler

OnHardwareStatus == HardwareStatusHandler

OnEphemeris ==
    \E prn \in ValidPrns, timestamp \in Timestamps :
        EphemerisHandler(GpsEphemeris(prn, 1), timestamp, 1)

OnEphemerisAnyPrn ==
    \E prn \in ValidPrns \cup InvalidPrns, variant \in {1, 2},
       timestamp \in Timestamps, stamp \in Stamps :
        EphemerisHandler(GpsEphemeris(prn, variant), timestamp, stamp)

OnRange ==
    \E range \in RangeInputs, timestamp \in Timestamps, stamp \in Stamps :
        RangeHandler(range, timestamp, stamp)

\* the node: every callback, in any order; position fixes of two position
\* types, ephemerides of the satellites of the table
Next ==
    \/ OnBestUtm
    \/ OnBestVelocity
    \/ OnInsPva
    \/ OnInsCov
    \/ OnRawImu
    \/ OnHardwareStatus
    \/ OnEphemeris
    \/ OnRange

Spec == Init /\ [][Next]_vars

\* the GNSS logs alone, position fixes of every position type
NextFix == OnBestUtmAnyType \/ OnBestVelocity

SpecFix == Init /\ [][NextFix]_vars

\* the ephemeris logs alone, satellite ids inside and outside the table
NextEphem == OnEphemerisAnyPrn

SpecEphem == Init /\ [][NextEphem]_vars

\* GPSEPHEM logs of the satellites of the table only, each satellite sending
\* several ephemerides
OnEphemerisValid ==
    \E prn \in ValidPrns, variant \in 1 .. 3, timestamp \in {7, 8}, stamp \in Stamps :
        EphemerisHandler(GpsEphemeris(prn, variant), timestamp, stamp)

NextEphemValid == OnEphemerisValid

SpecEphemValid == Init /\ [][NextEphemValid]_vars

OnRun == \E params \in Parameters : run(params)

\* ros::spin(): the node is up and the receiver's logs without content for
\* the node arrive
OnSpin == pc = "spin" /\ (RawImuHandler \/ HardwareStatusHandler)

\* main: run() with any parameters, then the event loop
NextRun == OnRun \/ OnSpin

SpecRun == Init /\ [][NextRun]_vars

\* ------------------------------------------------------------- properties
\* the messages of the most recent primary callback
SatFix == published[1]

Odom == published[2]

\* GPS time a precedes GPS time b
Older(a, b) ==
    \/ a.gps_week < b.gps_week
    \/ a.gps_week = b.gps_week /\ a.gps_millisecs < b.gps_millisecs

\* a message without its output time stamp
Content(msgs) == [i \in DOMAIN msgs |-> [msgs[i] EXCEPT !.stamp = 0]]

\* C1: for every position fix BestUtmHandler handled, the velocity-derived
\* parts of the odometry (twist linear, orientation, pose.covariance[35],
\* twist.covariance[0] and [7]) are written from the cached Velocity when its
\* gps_week and gps_millisecs both equal the fix's, and none of them is
\* written (each keeps the value of a fresh message) when either differs.
C1_VelocityFusedIffSameEpoch ==
    call.op = "BestUtm" =>
        LET pos == call.rec
            vel == cur_velocity_
            same == /\ vel.header.gps_week = pos.header.gps_week
                    /\ vel.header.gps_millisecs = pos.header.gps_millisecs
        IN  /\ same =>
                /\ {"linear", "orientation"} \subseteq Odom.written.fields
                /\ 35 \in Odom.written.pose
                /\ {0, 7} \subseteq Odom.written.twist
                /\ Odom.linear[1].mag = vel.horizontal_speed
                /\ Odom.linear[2].mag = vel.horizontal_speed
                /\ Odom.linear[1].arg.v = vel.track_over_ground
                /\ Odom.linear[3] = Plain(vel.vertical_speed)
                /\ Odom.orientation.set
                /\ Odom.orientation.yaw.v = vel.track_over_ground
                /\ Odom.pose_covariance[35] # Zero
                /\ Odom.twist_covariance[0] # Zero
                /\ Odom.twist_covariance[7] # Zero
            /\ ~same =>
                /\ Odom.written.fields \cap {"linear", "orientation"} = {}
                /\ 35 \notin Odom.written.pose
                /\ Odom.written.twist = {}
                /\ Odom.linear = DefaultOdometry.linear
                /\ Odom.orientation = DefaultOrientation
                /\ Odom.pose_covariance[35] = Zero
                /\ Odom.twist_covariance = ZeroCovariance

\* a fix whose week equals the cached Velocity's and whose millisecond differs
\* was handled, and nothing of the Velocity went into the odometry
C1_Witness ==
    /\ call.op = "BestUtm"
    /\ cur_velocity_.header.gps_week = call.rec.header.gps_week
    /\ cur_velocity_.header.gps_millisecs # call.rec.header.gps_millisecs
    /\ arrived.velocity # <<>>
    /\ 35 \notin Odom.written.pose

\* C2: for every INS solution InsPvaHandler handled, the pose and twist
\* covariance blocks of the odometry are written from the cached
\* InsCovarianceShort when its gps_week and gps_millisecs both equal the
\* solution's and are not written when either differs; orientation and twist
\* come from the solution itself, the cached Velocity goes nowhere.
C2_InsCovFusedIffSameEpoch ==
    call.op = "InsPva" =>
        LET ins == call.rec
            cov == cur_ins_cov_
            same == cov.gps_week = ins.gps_week /\ cov.gps_millisecs = ins.gps_millisecs
        IN  /\ same =>
                \A i \in 0 .. 2, j \in 0 .. 2 :
                    /\ 6 * i + j \in Odom.written.pose
                    /\ 21 + 6 * i + j \in Odom.written.pose
                    /\ 6 * i + j \in Odom.written.twist
                    /\ Odom.pose_covariance[6 * i + j] =
                           Num(cov.position_covariance[3 * i + j])
                    /\ Odom.pose_covariance[21 + 6 * i + j].v =
                           cov.attitude_covariance[3 * i + j]
                    /\ Odom.twist_covariance[6 * i + j] =
                           Num(cov.velocity_covariance[3 * i + j])
            /\ ~same =>
                /\ Odom.written.pose = {}
                /\ Odom.written.twist = {}
                /\ Odom.pose_covariance = ZeroCovariance
                /\ Odom.twist_covariance = ZeroCovariance
            /\ Odom.linear = <<Plain(ins.east_velocity), Plain(ins.north_velocity),
                               Plain(ins.up_velocity)>>
            /\ Odom.orientation.roll = Num(ins.roll)
            /\ Odom.orientation.pitch = Num(ins.pitch)
            /\ Odom.orientation.yaw = Num(ins.azimuth)

\* an INS solution was fused with the cached covariance while the cached
\* Velocity is of another epoch
C2_Witness ==
    /\ call.op = "InsPva"
    /\ arrived.ins_cov # <<>>
    /\ cur_ins_cov_.gps_week = call.rec.gps_week
    /\ cur_ins_cov_.gps_millisecs = call.rec.gps_millisecs
    /\ arrived.velocity # <<>>
    /\ cur_velocity_.header.gps_millisecs # call.rec.gps_millisecs
    /\ Odom.written.pose # {}

\* C3: once a Velocity (an InsCovarianceShort) has arrived, the cache holds
\* the one that arrived last, whatever the epochs of the two.
C3_CacheIsLastArrival ==
    /\ arrived.velocity # <<>> => cur_velocity_ = arrived.velocity[1]
    /\ arrived.ins_cov # <<>> => cur_ins_cov_ = arrived.ins_cov[1]

\* a Velocity older than the one that arrived before it has replaced it
C3_Witness ==
    /\ call.op = "BestVelocity"
    /\ call.replaced # <<>>
    /\ Older(call.rec.header, call.replaced[1].header)
    /\ cur_velocity_ = call.rec

\* C4: a primary record handled while the cached secondary record, one that
\* did arrive, is of another epoch is published with DBL_MAX in every covariance entry the secondary record
\* would have supplied.
C4_NoMatchCarriesSentinel ==
    /\ ( /\ call.op = "BestUtm"
         /\ arrived.velocity # <<>>
         /\ ~ ( /\ cur_velocity_.header.gps_week = call.rec.header.gps_week
                /\ cur_velocity_.header.gps_millisecs = call.rec.header.gps_millisecs) )
       => /\ Odom.pose_covariance[35] = DBL_MAX
          /\ Odom.twist_covariance[0] = DBL_MAX
          /\ Odom.twist_covariance[7] = DBL_MAX
    /\ ( /\ call.op = "InsPva"
         /\ arrived.ins_cov # <<>>
         /\ ~ ( /\ cur_ins_cov_.gps_week = call.rec.gps_week
                /\ cur_ins_cov_.gps_millisecs = call.rec.gps_millisecs) )
       => /\ \A i \in {0, 7, 14, 21, 28, 35} : Odom.pose_covariance[i] = DBL_MAX
          /\ \A i \in {0, 7, 14} : Odom.twist_covariance[i] = DBL_MAX

\* C5: only BestVelocityHandler changes cur_velocity_ and only InsCovHandler
\* changes cur_ins_cov_, so a cached record stays through every other callback;
\* a primary record of the cached record's epoch is fused with it whenever it
\* is handled; and the same primary record handled twice in a row is published
\* with the same content, time stamps aside.
C5_PrimaryKeepsCaches ==
    [][ /\ call'.op # "BestVelocity" => cur_velocity_' = cur_velocity_
        /\ call'.op # "InsCov" => cur_ins_cov_' = cur_ins_cov_
        /\ ( /\ call'.op = "BestUtm"
             /\ cur_velocity_.header = call'.rec.header )
           => 35 \in published'[2].written.pose
        /\ ( /\ call'.op = "InsPva"
             /\ cur_ins_cov_.gps_week = call'.rec.gps_week
             /\ cur_ins_cov_.gps_millisecs = call'.rec.gps_millisecs )
           => 35 \in published'[2].written.pose
        /\ ( /\ call'.op \in {"BestUtm", "InsPva"}
             /\ call.op = call'.op
             /\ call.rec = call'.rec )
           => Content(published') = Content(published)
      ]_vars

\* the same position fix was handled twice in a row and fused with a Velocity
\* that had arrived before
C5_Witness ==
    /\ call.op = "BestUtm"
    /\ call.again
    /\ arrived.velocity # <<>>
    /\ 35 \in Odom.written.pose

\* C8: a fix matched with a Velocity of position type above NONE and
\* horizontal speed zero is published with a heading variance
\* pose.covariance[35] that is DBL_MAX or a finite (clamped) value.
C8_ZeroSpeedHeadingVarianceGuarded ==
    ( /\ call.op = "BestUtm"
      /\ arrived.velocity # <<>>
      /\ cur_velocity_.header = call.rec.header
      /\ cur_velocity_.position_type > PositionType.NONE
      /\ cur_velocity_.horizontal_speed = 0 )
    => Odom.pose_covariance[35].k \in {"DBL_MAX", "num"}

\* the tier the position types are documented to map to
DocumentedTier(position_type) ==
    IF position_type = PositionType.NONE THEN NavSatStatus.STATUS_NO_FIX
    ELSE IF position_type \in
              {PositionType.WAAS, PositionType.OMNISTAR, PositionType.OMNISTAR_HP,
               PositionType.OMNISTAR_XP, PositionType.CDGPS}
    THEN NavSatStatus.STATUS_SBAS_FIX
    ELSE IF position_type \in
              {PositionType.PSRDIFF,
               PositionType.L1_FLOAT, PositionType.IONOFREE_FLOAT,
               PositionType.NARROW_FLOAT,
               PositionType.L1_INT, PositionType.WIDE_INT, PositionType.NARROW_INT,
               PositionType.RTK_DIRECT_INS, PositionType.INS_PSRDIFF,
               PositionType.INS_RTKFLOAT, PositionType.INS_RTKFIXED}
    THEN NavSatStatus.STATUS_GBAS_FIX
    ELSE NavSatStatus.STATUS_FIX

\* C9: the status of a fix of a recognized position type is its tier: NONE
\* no fix; WAAS, OMNISTAR, OMNISTAR_HP, OMNISTAR_XP, CDGPS SBAS; PSRDIFF, the
\* float and the integer RTK types, RTK_DIRECT_INS, INS_PSRDIFF, INS_RTKFLOAT,
\* INS_RTKFIXED GBAS; every other recognized type plain fix.
C9_StatusIsDocumentedTier ==
    ( /\ call.op = "BestUtm"
      /\ call.rec.position_type \in RecognizedPositionTypes )
    => SatFix.status = DocumentedTier(call.rec.position_type)

\* C10: a fix whose position type is not a value of the enumeration is
\* rejected: neither a NavSatFix nor an Odometry is published for it.
C10_UnrecognizedTypeRejected ==
    ( /\ call.op = "BestUtm"
      /\ call.rec.position_type \notin RecognizedPositionTypes )
    => published = <<>>

\* C6: an ephemeris of satellite id p in 1 .. NumSat leaves every element but
\* element p - 1 of every per-satellite array as it was.
C6_OnlyRowOfPrnChanges ==
    [][ ( /\ call'.op = "Ephemeris"
          /\ call'.rec.prn \in 1 .. NumSat )
        => \A g \in DOMAIN EphemFields, r \in Rows :
              r # call'.rec.prn - 1 => cur_ephem_'.rows[g][r] = cur_ephem_.rows[g][r]
      ]_vars

\* an ephemeris of one satellite was stored while the row of another satellite
\* holds an ephemeris of different content
C6_Witness ==
    /\ call.op = "Ephemeris"
    /\ call.rec.prn \in 1 .. NumSat
    /\ cur_ephem_.rows[1][call.rec.prn - 1] = call.rec.health
    /\ \E r \in Rows :
          /\ r # call.rec.prn - 1
          /\ cur_ephem_.rows[1][r] # 0
          /\ cur_ephem_.rows[1][r] # call.rec.health

\* C7: an ephemeris whose satellite id is 0 or above NumSat is rejected: no
\* element of the table changes and nothing is published for it.
C7_OutOfRangePrnRejected ==
    [][ ( /\ call'.op = "Ephemeris"
          /\ call'.rec.prn \notin 1 .. NumSat )
        => /\ cur_ephem_'.rows = cur_ephem_.rows
           /\ published' = <<>>
      ]_vars

\* C11: the odometry of every position fix, matched with a Velocity or not,
\* has pose.covariance[0], [7], [14] equal to the squares of the easting,
\* northing and height standard deviations of the fix, [21] and [28] equal to
\* DBL_MAX, and every off-diagonal entry of pose.covariance equal to 0.
C11_UtmPoseCovarianceDiagonal ==
    call.op = "BestUtm" =>
        LET pos == call.rec
        IN  /\ Odom.pose_covariance[0] =
                   Num(pos.easting_standard_deviation * pos.easting_standard_deviation)
            /\ Odom.pose_covariance[7] =
                   Num(pos.northing_standard_deviation * pos.northing_standard_deviation)
            /\ Odom.pose_covariance[14] =
                   Num(pos.height_standard_deviation * pos.height_standard_deviation)
            /\ Odom.pose_covariance[21] = DBL_MAX
            /\ Odom.pose_covariance[28] = DBL_MAX
            /\ \A i \in 0 .. 5, j \in 0 .. 5 :
                   i # j => Odom.pose_covariance[6 * i + j] = Zero

\* a fix was handled while the Velocity that had arrived is of another epoch,
\* and its northing variance is in the odometry
C11_Witness ==
    /\ call.op = "BestUtm"
    /\ arrived.velocity # <<>>
    /\ cur_velocity_.header # call.rec.header
    /\ call.rec.northing_standard_deviation = 2
    /\ Odom.pose_covariance[7] = Num(4)
    /\ Odom.pose_covariance[28] = DBL_MAX

\* C12: the odometry of an INS solution matched with the cached covariance
\* has element (i, j) of the position block in pose.covariance[6i + j], of the
\* attitude block in pose.covariance[21 + 6i + j] and of the velocity block in
\* twist.covariance[6i + j], and 0 in every other entry of both arrays.
C12_InsBlocksPlaced ==
    ( /\ call.op = "InsPva"
      /\ cur_ins_cov_.gps_week = call.rec.gps_week
      /\ cur_ins_cov_.gps_millisecs = call.rec.gps_millisecs )
    => /\ \A i \in 0 .. 2, j \in 0 .. 2 :
              /\ Odom.pose_covariance[6 * i + j].v =
                     cur_ins_cov_.position_covariance[3 * i + j]
              /\ Odom.pose_covariance[21 + 6 * i + j].v =
                     cur_ins_cov_.attitude_covariance[3 * i + j]
              /\ Odom.twist_covariance[6 * i + j].v =
                     cur_ins_cov_.velocity_covariance[3 * i + j]
       /\ \A i \in 0 .. 5, j \in 0 .. 5 :
              /\ (i < 3) # (j < 3) => Odom.pose_covariance[6 * i + j] = Zero
              /\ (i > 2 \/ j > 2) => Odom.twist_covariance[6 * i + j] = Zero

\* an INS solution was fused with a covariance that had arrived, the last
\* element of each block being where it belongs
C12_Witness ==
    /\ call.op = "InsPva"
    /\ arrived.ins_cov # <<>>
    /\ cur_ins_cov_.gps_week = call.rec.gps_week
    /\ cur_ins_cov_.gps_millisecs = call.rec.gps_millisecs
    /\ Odom.pose_covariance[14].v = cur_ins_cov_.position_covariance[8]
    /\ Odom.pose_covariance[35].v = cur_ins_cov_.attitude_covariance[8]
    /\ Odom.twist_covariance[14].v = cur_ins_cov_.velocity_covariance[8]

\* C13: in the odometry of a matched INS solution each of the nine attitude
\* covariance entries carries the factor (pi/180)^2 once, that is two
\* factors pi/180, and the position and velocity covariance entries carry no
\* factor.
C13_AttitudeConvertedOnce ==
    ( /\ call.op = "InsPva"
      /\ cur_ins_cov_.gps_week = call.rec.gps_week
      /\ cur_ins_cov_.gps_millisecs = call.rec.gps_millisecs )
    => \A k \in 0 .. 8 :
          /\ Odom.pose_covariance[LowerRightBlock[k + 1]] =
                 [k |-> "num", v |-> cur_ins_cov_.attitude_covariance[k],
                  d |-> 1, c |-> 2]
          /\ Odom.pose_covariance[UpperLeftBlock[k + 1]] =
                 [k |-> "num", v |-> cur_ins_cov_.position_covariance[k],
                  d |-> 1, c |-> 0]
          /\ Odom.twist_covariance[UpperLeftBlock[k + 1]] =
                 [k |-> "num", v |-> cur_ins_cov_.velocity_covariance[k],
                  d |-> 1, c |-> 0]

\* a matched INS solution was published with a roll variance in radians^2
C13_Witness ==
    /\ call.op = "InsPva"
    /\ arrived.ins_cov # <<>>
    /\ cur_ins_cov_.gps_week = call.rec.gps_week
    /\ cur_ins_cov_.gps_millisecs = call.rec.gps_millisecs
    /\ cur_ins_cov_.attitude_covariance[0] # 0
    /\ Odom.pose_covariance[21].c = 2

\* C14: the message of every range log has, at each channel index n, the
\* satellite id, pseudorange, pseudorange deviation, doppler and
\* carrier-to-noise of raw channel n unchanged and the accumulated doppler and
\* its deviation of raw channel n negated once; it is a function of the log
\* just handled and of nothing an earlier log left behind.
C14_RangeChannelwise ==
    call.op = "Range" =>
        /\ Len(published) = 1
        /\ published[1].topic = "range"
        /\ \A n \in Channels :
              LET raw == call.rec.range_data[n]
                  L1 == published[1].L1
              IN  /\ L1.prn[n] = raw.satellite_prn
                  /\ L1.psr[n] = raw.pseudorange
                  /\ L1.psr_std[n] = raw.pseudorange_standard_deviation
                  /\ L1.doppler[n] = raw.doppler
                  /\ L1.noise[n] = raw.carrier_to_noise
                  /\ L1.phase[n] + raw.accumulated_doppler = 0
                  /\ L1.phase_std[n] + raw.accumulated_doppler_std_deviation = 0

\* a range log was published whose last channel differs from the first and
\* has its phase negated
C14_Witness ==
    /\ call.op = "Range"
    /\ call.rec.range_data[MAX_CHAN - 1].accumulated_doppler > 0
    /\ call.rec.range_data[MAX_CHAN - 1] # call.rec.range_data[0]
    /\ published[1].L1.phase[MAX_CHAN - 1] < 0
    /\ published[1].L1.prn[MAX_CHAN - 1] = call.rec.range_data[MAX_CHAN - 1].satellite_prn

\* C15: a range log whose number_of_observations differs from MAX_CHAN is
\* rejected: nothing is published for it.
C15_ChannelCountMismatchRejected ==
    ( /\ call.op = "Range"
      /\ call.rec.number_of_observations # MAX_CHAN )
    => published = <<>>

\* C17: an INS solution whose latitude or longitude is out of range is
\* rejected: neither a fix nor an odometry is published for it and both
\* caches stay as they were.
C17_InvalidCoordinateRejected ==
    [][ ( /\ call'.op = "InsPva"
          /\ \/ call'.rec.latitude \notin -90 .. 90
             \/ call'.rec.longitude \notin -180 .. 180 )
        => /\ published' = <<>>
           /\ UNCHANGED <<cur_velocity_, cur_ins_cov_>> ]_vars

\* C19: every position fix and every INS solution publishes one NavSatFix
\* and after it one Odometry with the same stamp, matched or not; a Velocity
\* or an INS covariance publishes nothing.
C19_PrimaryPublishesFixThenOdom ==
    /\ call.op \in {"BestUtm", "InsPva"} =>
          /\ Len(published) = 2
          /\ published[1].topic = "nav_sat_fix"
          /\ published[2].topic = "odom"
          /\ published[1].stamp = published[2].stamp
    /\ call.op \in {"BestVelocity", "InsCov"} => published = <<>>

\* a fix of an epoch other than that of the Velocity that had arrived was
\* published with its odometry, nothing of the Velocity in it
C19_Witness ==
    /\ call.op = "BestUtm"
    /\ arrived.velocity # <<>>
    /\ cur_velocity_.header # call.rec.header
    /\ Len(published) = 2
    /\ published[2].topic = "odom"
    /\ published[2].stamp = 2
    /\ published[2].written.twist = {}

\* C20: a position fix handled before any Velocity arrived, and an INS
\* solution handled before any INS covariance arrived, is not fused, whatever
\* its epoch.
C20_NeverArrivedNeverFused ==
    /\ (call.op = "BestUtm" /\ arrived.velocity = <<>>) =>
           /\ Odom.written.twist = {}
           /\ 35 \notin Odom.written.pose
    /\ (call.op = "InsPva" /\ arrived.ins_cov = <<>>) =>
           /\ Odom.written.twist = {}
           /\ Odom.written.pose = {}

\* row r of an ephemeris table, one value per per-satellite array
TableRow(table, r) == [k \in DOMAIN EphemFields |-> table.rows[k][r]]

\* the row the stores of EphemerisHandler make of a GPSEPHEM log
RecordRow(ephem) == [k \in DOMAIN EphemFields |-> ephem[EphemSource[k]]]

EmptyRow == [k \in DOMAIN EphemFields |-> 0]

\* C18: with satellite ids in 1..NumSat, every update leaves in row prn-1 all
\* the fields of the record just handled and leaves the other rows as they
\* were, so each row is empty or is one whole record, the most recent of its
\* satellite; a populated row is never empty again; and the update publishes
\* one message, the whole table with the update applied.
C18_TableHoldsLatestWholeRecords ==
    [][ call'.op = "Ephemeris" =>
          /\ TableRow(cur_ephem_', call'.rec.prn - 1) = RecordRow(call'.rec)
          /\ \A r \in Rows \ {call'.rec.prn - 1} :
                TableRow(cur_ephem_', r) = TableRow(cur_ephem_, r)
          /\ \A r \in Rows :
                /\ TableRow(cur_ephem_, r) # EmptyRow => TableRow(cur_ephem_', r) # EmptyRow
                /\ \/ TableRow(cur_ephem_', r) = EmptyRow
                   \/ \E variant \in 1 .. 3 :
                         TableRow(cur_ephem_', r) = RecordRow(GpsEphemeris(r + 1, variant))
          /\ Len(published') = 1
          /\ published'[1].topic = "ephemeris"
          /\ published'[1].msg = cur_ephem_'
          /\ TableRow(published'[1].msg, call'.rec.prn - 1) = RecordRow(call'.rec) ]_vars

\* the second ephemeris of satellite 1 was stored and published while the row
\* of satellite 2 still holds the third ephemeris of satellite 2
C18_Witness ==
    /\ call.op = "Ephemeris"
    /\ call.rec = GpsEphemeris(1, 2)
    /\ TableRow(cur_ephem_, 0) = RecordRow(GpsEphemeris(1, 2))
    /\ TableRow(cur_ephem_, 1) = RecordRow(GpsEphemeris(2, 3))
    /\ published = <<[topic |-> "ephemeris", msg |-> cur_ephem_]>>

\* C16: run() with a non-empty configure_port parameter that does not hold
\* exactly four tokens, zero tokens included, reports the error, sends neither
\* ConfigureInterfaceMode nor ConfigureBaudRate, reads no token that does not
\* exist and goes on to the event loop; with exactly four tokens it sends
\* both, token 1 the port of both, token 2 the baud rate, tokens 3 and 4 the
\* receive and transmit modes.
C16_ConfigurePortDirective ==
    ( /\ call.op = "run"
      /\ call.params.configure_port_ # EmptyString )
    => LET tokens == Tokens(call.params.configure_port_)
       IN  IF Len(tokens) # 4
           THEN /\ call.error
                /\ \A k \in DOMAIN gps_ :
                      gps_[k].cmd \notin {"ConfigureInterfaceMode", "ConfigureBaudRate"}
                /\ ~call.past_the_end
                /\ pc = "spin"
           ELSE /\ ~call.error
                /\ Len(gps_) >= 2
                /\ gps_[Len(gps_) - 1] =
                       [cmd |-> "ConfigureInterfaceMode", com_port |-> tokens[1],
                        rx_mode |-> tokens[3], tx_mode |-> tokens[4]]
                /\ gps_[Len(gps_)] =
                       [cmd |-> "ConfigureBaudRate", com_port |-> tokens[1],
                        baudrate |-> Atoi(tokens[2])]
                /\ pc = "spin"

\* the double x, a nonzero angle the receiver gave in degrees, carries the
\* factor pi/180 once
InRadians(x) == x.k = "num" /\ x.c = 1

\* C21: every angle of the receiver is converted from degrees to radians once
\* before it is used as an angle: in the odometry of a matched position fix
\* the argument of cos and of sin and the yaw handed to
\* createQuaternionMsgFromYaw are the track over ground in radians, the same
\* value; in the odometry of an INS solution the roll, pitch and yaw handed to
\* createQuaternionMsgFromRollPitchYaw are in radians.
C21_AnglesConvertedOnce ==
    /\ ( /\ call.op = "BestUtm"
         /\ arrived.velocity # <<>>
         /\ cur_velocity_.header = call.rec.header
         /\ cur_velocity_.track_over_ground # 0 )
       => /\ InRadians(Odom.linear[1].arg)
          /\ InRadians(Odom.linear[2].arg)
          /\ InRadians(Odom.orientation.yaw)
          /\ Odom.linear[1].arg = Odom.orientation.yaw
          /\ Odom.linear[2].arg = Odom.orientation.yaw
    /\ ( /\ call.op = "InsPva"
         /\ call.rec.roll # 0 /\ call.rec.pitch # 0 /\ call.rec.azimuth # 0 )
       => /\ InRadians(Odom.orientation.roll)
          /\ InRadians(Odom.orientation.pitch)
          /\ InRadians(Odom.orientation.yaw)

\* the default log groups: the logs of each and the parameter that is its
\* own period
LogGroups ==
    {[logs |-> <<"BESTUTMB", "BESTVELB">>, period |-> "gps_default_logs_period_"],
     [logs |-> <<"INSPVAB", "INSCOVB">>, period |-> "span_default_logs_period_"],
     [logs |-> <<"GPSEPHEMB">>, period |-> "ephem_default_logs_period_"],
     [logs |-> <<"RANGEB">>, period |-> "range_default_logs_period_"]}

\* command k sent to the receiver is the request of the logs of group
RequestsGroup(k, group) ==
    /\ gps_[k].cmd = "ConfigureLogs"
    /\ [i \in DOMAIN gps_[k].requests |-> gps_[k].requests[i].log] = group.logs

\* run() sends Connect first; requests a group of default logs exactly if
\* the group's own period is positive, every log of it ONTIME at that period
\* as std::fixed writes it; and sends the log_commands parameter after the
\* groups and before the commands of the port configuration
LogsRequestedAsConfigured(groups) ==
    call.op = "run" =>
       /\ gps_[1].cmd = "Connect"
       /\ \A k \in 2 .. Len(gps_) : gps_[k].cmd # "Connect"
       /\ \A group \in groups :
             /\ call.params[group.period] > 0
                   <=> \E k \in DOMAIN gps_ : RequestsGroup(k, group)
             /\ \A k \in DOMAIN gps_ :
                   RequestsGroup(k, group) =>
                      \A i \in DOMAIN gps_[k].requests :
                         /\ gps_[k].requests[i].trigger = "ONTIME"
                         /\ gps_[k].requests[i].period =
                                Fixed2(call.params[group.period])
       /\ \E u \in DOMAIN gps_ :
             /\ gps_[u] = ConfigureLogs(call.params.log_commands_)
             /\ \A k \in DOMAIN gps_ :
                   /\ (\E group \in groups : RequestsGroup(k, group)) => k < u
                   /\ gps_[k].cmd \in {"ConfigureInterfaceMode", "ConfigureBaudRate"}
                         => k > u

\* C22: in run() Connect is issued before any log request; each of the GPS,
\* SPAN, ephemeris and range groups of default logs is requested if and only
\* if its own period parameter is greater than 0, with that period as the
\* ONTIME interval; the log_commands parameter is sent after all the groups
\* and before the port reconfiguration.
C22_DefaultLogsByOwnPeriod == LogsRequestedAsConfigured(LogGroups)

============================================================================
